---- MODULE Spec2Model ----
(***************************************************************************)
(* A model of @eggjs/supertest: the Request factory, the Test object       *)
(* (expect / end / assert) and the server a Test binds and closes.         *)
(*                                                                         *)
(* One factory holds one application reference.  Every verb call creates a *)
(* Test; a Test that finds the server unbound binds it and keeps it in     *)
(* _server.  end() hands the request to the transport (superagent); when   *)
(* the round trip completes the Test closes the server it bound, then runs *)
(* the queue of assertions and calls the completion callback.              *)
(***************************************************************************)
EXTENDS Integers, Sequences, FiniteSets, TLC

\* ------------------------------------------------------------------ bounds
NumTests == 2      \* Tests created from the one factory
MaxAsserts == 2    \* longest assertion queue of a Test on its own
MaxQueue == 1      \* longest assertion queue of a Test among several
MaxDefaults == 1   \* calls of set recorded on an agent
MaxHops == 1       \* redirect hops a Test follows

TestIds == 1..NumTests

\* ------------------------------------------------------------------ values
\* JavaScript values are records tagged by "type", so that values of different
\* kinds compare unequal instead of being incomparable.
Null == [type |-> "null"]
Undefined == [type |-> "undefined"]

\* resError.status / res.status when the property is absent (undefined).
NoStatus == 0

Statuses == {200, 500}

\* A response of the transport: res.status, res.text, res.body, res.header.
FullResponse(s, text, body, header) ==
  [type |-> "Response", status |-> s, text |-> text, body |-> body, header |-> header]

\* The response of a handler that sends nothing but a status: an empty text,
\* the empty object {} as its parsed body, no header of interest.
Response(s) ==
  FullResponse(s, [type |-> "string", s |-> ""], [type |-> "object", json |-> "{}"], <<>>)
Responses == {Response(s) : s \in Statuses}

\* A transport error (ResponseError): an Error with optional syscall, code, status.
ResponseError(st, co, sy) ==
  [type |-> "Error", origin |-> "transport", status |-> st, code |-> co, syscall |-> sy]

\* An Error made by `new Error(message)`.
NewError(msg) == [type |-> "Error", origin |-> "new", message |-> msg]

\* What reading a property of a missing response raises.
TypeError == [type |-> "TypeError", origin |-> "read of undefined"]

\* The error a custom closure returns or throws: it is the closure's own object.
ClosureError(id) == [type |-> "Error", origin |-> "closure", id |-> id]
\* A non-error value a custom closure returns or throws.
ClosureValue(id) == [type |-> "string", origin |-> "closure", id |-> id]

\* `x instanceof Error`
InstanceOfError(x) == x.type \in {"Error", "TypeError", "AssertError"}

\* JavaScript truthiness of the values above: null and undefined are falsy,
\* objects and the non-empty strings a closure hands back are truthy.
Truthy(x) == x.type \notin {"null", "undefined"}

\* typeof x
TypeOf(x) ==
  IF x.type \in {"number", "string", "function", "undefined"} THEN x.type ELSE "object"

Range(s) == {s[i] : i \in DOMAIN s}

Num(n) == [type |-> "number", n |-> n]
Str(s) == [type |-> "string", s |-> s]
\* A function value; `does` is what it does when it is invoked as an assertion.
Fn(does) == [type |-> "function", does |-> does]
\* A regular expression: its source and the strings it matches.
Regexp(source, matches) == [type |-> "regexp", source |-> source, matches |-> matches]
\* An array of values, and an object literal by its JSON text.
Arr(elems) == [type |-> "array", elems |-> elems]
Obj(json) == [type |-> "object", json |-> json]

\* x === y: by value for primitives; an object, array or pattern is only
\* identical to itself, and no expected value is the response's own object.
StrictEquals(x, y) ==
  x.type \in {"number", "string", "null", "undefined"} /\ x = y

\* deepStrictEqual(x, y) does not throw: same type and same structure.
DeepStrictEqual(x, y) == x = y

\* The decimal text of the numbers in use.
DecimalText(n) ==
  CASE n = 200 -> "200" [] n = 500 -> "500" [] n = 3 -> "3" [] n = 4 -> "4"
    [] OTHER -> "0"

\* Array.prototype.join over texts
RECURSIVE Join(_, _)
Join(texts, sep) ==
  IF Len(texts) = 0 THEN ""
  ELSE IF Len(texts) = 1 THEN texts[1]
  ELSE texts[1] \o sep \o Join(Tail(texts), sep)

\* String(x), as string concatenation and RegExp.test coerce a value
RECURSIVE StringOf(_)
StringOf(a) ==
  CASE a.type = "string" -> a.s
    [] a.type = "number" -> DecimalText(a.n)
    [] a.type = "array" -> Join([i \in 1..Len(a.elems) |-> StringOf(a.elems[i])], ",")
    [] a.type = "regexp" -> "/" \o a.source \o "/"
    [] a.type = "null" -> "null"
    [] a.type = "undefined" -> "undefined"
    [] OTHER -> "[object Object]"

\* util.inspect(x)
RECURSIVE Inspect(_)
Inspect(a) ==
  CASE a.type = "string" -> "'" \o a.s \o "'"
    [] a.type = "array" ->
         IF Len(a.elems) = 0 THEN "[]"
         ELSE "[ " \o Join([i \in 1..Len(a.elems) |-> Inspect(a.elems[i])], ", ") \o " ]"
    [] a.type = "object" -> a.json
    [] OTHER -> StringOf(a)

\* pattern.test(x)
RegExpTest(pattern, x) == StringOf(x) \in pattern.matches

\* name.toLowerCase(), for the header names in use
ToLowerCase(name) ==
  CASE name = "Content-Length" -> "content-length"
    [] name = "Content-Type" -> "content-type"
    [] name = "Set-Cookie" -> "set-cookie"
    [] OTHER -> name

\* res.header[key]: undefined when the response has no such header
HeaderOf(res, key) ==
  IF \E i \in DOMAIN res.header : res.header[i].key = key
  THEN (CHOOSE h \in Range(res.header) : h.key = key).value
  ELSE Undefined

\* ------------------------------------------------------- assertion closures
\* What a custom closure that writes to the response does: it gives the
\* parsed body a property, or replaces the raw text.
Mutations == {"setBody", "setText"}

\* What a custom closure may do with the response.
ClosureDoes == {"pass", "returnError", "throwError", "returnValue", "throwValue"}

\* node:http STATUS_CODES
STATUS_CODES(n) ==
  CASE n = 200 -> "OK" [] n = 500 -> "Internal Server Error" [] OTHER -> "undefined"

AssertError(msg) == [type |-> "AssertError", origin |-> "new", message |-> msg]

\* The outcome of calling a function: it returned `value` or threw it.
Returned(v) == [threw |-> FALSE, value |-> v]
Threw(v) == [threw |-> TRUE, value |-> v]

\* A status assertion that passes when there is no response to read.
AssertStatusNothingToRead(status, res) ==
  IF ~Truthy(res) THEN Returned(Undefined)
  ELSE IF res.status # status
    THEN Returned(AssertError("expected " \o DecimalText(status) \o " \""
                \o STATUS_CODES(status) \o "\", got " \o DecimalText(res.status)
                \o " \"" \o STATUS_CODES(res.status) \o "\""))
    ELSE Returned(Undefined)

\* A status assertion that fails only on a status below the expected one.
AssertStatusAtLeast(status, res) ==
  IF ~Truthy(res) THEN Threw(TypeError)
  ELSE IF res.status < status
    THEN Returned(AssertError("expected " \o DecimalText(status) \o " \""
                \o STATUS_CODES(status) \o "\", got " \o DecimalText(res.status)
                \o " \"" \o STATUS_CODES(res.status) \o "\""))
    ELSE Returned(Undefined)

\* Test._assertStatus(status, res)
AssertStatus(status, res) ==
  IF ~Truthy(res) THEN Threw(TypeError)
  ELSE IF res.status # status
    THEN Returned(AssertError("expected " \o DecimalText(status) \o " \""
                \o STATUS_CODES(status) \o "\", got " \o DecimalText(res.status)
                \o " \"" \o STATUS_CODES(res.status) \o "\""))
    ELSE Returned(Undefined)

\* A status-set assertion that looks at the first status of the list only.
AssertStatusArrayFirstOnly(statusArray, res) ==
  IF ~Truthy(res) THEN Threw(TypeError)
  ELSE IF ~StrictEquals(statusArray[1], Num(res.status))
    THEN Returned(AssertError("expected one of \""
                \o Join([i \in DOMAIN statusArray |-> StringOf(statusArray[i])], ", ")
                \o "\", got " \o DecimalText(res.status)
                \o " \"" \o STATUS_CODES(res.status) \o "\""))
    ELSE Returned(Undefined)

\* Test._assertStatusArray(statusArray, res)
AssertStatusArray(statusArray, res) ==
  IF ~Truthy(res) THEN Threw(TypeError)
  ELSE IF ~(\E i \in DOMAIN statusArray : StrictEquals(statusArray[i], Num(res.status)))
    THEN Returned(AssertError("expected one of \""
                \o Join([i \in DOMAIN statusArray |-> StringOf(statusArray[i])], ", ")
                \o "\", got " \o DecimalText(res.status)
                \o " \"" \o STATUS_CODES(res.status) \o "\""))
    ELSE Returned(Undefined)

\* A body assertion that compares every expectation with the parsed body.
AssertBodyAlwaysParsed(body, res) ==
  IF ~Truthy(res) THEN Threw(TypeError)
  ELSE IF DeepStrictEqual(body, res.body)
    THEN Returned(Undefined)
    ELSE Returned(AssertError("expected " \o Inspect(body) \o " response body, got "
                              \o Inspect(res.body)))

\* Test._assertBody(body, res)
AssertBody(body, res) ==
  IF ~Truthy(res) THEN Threw(TypeError)
  ELSE IF TypeOf(body) = "object" /\ body.type # "regexp"
    THEN IF DeepStrictEqual(body, res.body)
         THEN Returned(Undefined)
         ELSE Returned(AssertError("expected " \o Inspect(body) \o " response body, got "
                                   \o Inspect(res.body)))
    ELSE IF ~StrictEquals(body, res.text)
    THEN IF body.type = "regexp"
         THEN IF ~RegExpTest(body, res.text)
              THEN Returned(AssertError("expected body " \o Inspect(res.text)
                                        \o " to match " \o StringOf(body)))
              ELSE Returned(Undefined)
         ELSE Returned(AssertError("expected " \o Inspect(body) \o " response body, got "
                                   \o Inspect(res.text)))
    ELSE Returned(Undefined)

\* A header assertion that looks the name up as it is written.
AssertHeaderCaseSensitive(header, res) ==
  IF ~Truthy(res) THEN Threw(TypeError)
  ELSE LET field == header.name
           actual == HeaderOf(res, field)
           fieldExpected == header.value
       IN IF TypeOf(actual) = "undefined"
          THEN Returned(AssertError("expected \"" \o field \o "\" header field"))
          ELSE IF \/ (actual.type = "array" /\ StrictEquals(Str(StringOf(actual)), fieldExpected))
                  \/ StrictEquals(fieldExpected, actual)
          THEN Returned(Undefined)
          ELSE IF fieldExpected.type = "regexp"
          THEN IF ~RegExpTest(fieldExpected, actual)
               THEN Returned(AssertError("expected \"" \o field \o "\" matching "
                                         \o StringOf(fieldExpected) \o ", got \""
                                         \o StringOf(actual) \o "\""))
               ELSE Returned(Undefined)
          ELSE Returned(AssertError("expected \"" \o field \o "\" of \""
                                    \o StringOf(fieldExpected) \o "\", got \""
                                    \o StringOf(actual) \o "\""))

\* Test._assertHeader({ name, value }, res)
AssertHeader(header, res) ==
  IF ~Truthy(res) THEN Threw(TypeError)
  ELSE LET field == header.name
           actual == HeaderOf(res, ToLowerCase(field))
           fieldExpected == header.value
       IN IF TypeOf(actual) = "undefined"
          THEN Returned(AssertError("expected \"" \o field \o "\" header field"))
          ELSE IF \/ (actual.type = "array" /\ StrictEquals(Str(StringOf(actual)), fieldExpected))
                  \/ StrictEquals(fieldExpected, actual)
          THEN Returned(Undefined)
          ELSE IF fieldExpected.type = "regexp"
          THEN IF ~RegExpTest(fieldExpected, actual)
               THEN Returned(AssertError("expected \"" \o field \o "\" matching "
                                         \o StringOf(fieldExpected) \o ", got \""
                                         \o StringOf(actual) \o "\""))
               ELSE Returned(Undefined)
          ELSE Returned(AssertError("expected \"" \o field \o "\" of \""
                                    \o StringOf(fieldExpected) \o "\", got \""
                                    \o StringOf(actual) \o "\""))

\* A custom closure handed to expect(fn), invoked with the response.  `id` is
\* the closure's identity: the value it hands back is its own.
CallClosure(a, res) ==
  CASE a.does = "pass" -> Returned(Undefined)
    [] a.does = "returnError" -> Returned(ClosureError(a.id))
    [] a.does = "throwError" -> Threw(ClosureError(a.id))
    [] a.does = "returnValue" -> Returned(ClosureValue(a.id))
    [] a.does = "throwValue" -> Threw(ClosureValue(a.id))
    [] a.does \in Mutations ->
         IF Truthy(res) THEN Returned(Undefined) ELSE Threw(TypeError)

\* A presence assertion no response satisfies.
AssertHeaderPresentNever(name, res) ==
  IF ~Truthy(res) THEN Threw(TypeError)
  ELSE Returned(AssertError("expected \"" \o name \o "\" header field"))

\* The assertion of expectHeader(name): the response carries the header,
\* whatever its value.
AssertHeaderPresent(name, res) ==
  IF ~Truthy(res) THEN Threw(TypeError)
  ELSE IF HeaderOf(res, ToLowerCase(name)) # Undefined
    THEN Returned(Undefined)
    ELSE Returned(AssertError("expected \"" \o name \o "\" header field"))

\* An absence assertion every response satisfies.
AssertHeaderAbsentAlways(name, res) ==
  IF ~Truthy(res) THEN Threw(TypeError) ELSE Returned(Undefined)

\* The assertion of unexpectHeader(name): the response does not carry the
\* header.
AssertHeaderAbsent(name, res) ==
  IF ~Truthy(res) THEN Threw(TypeError)
  ELSE IF HeaderOf(res, ToLowerCase(name)) = Undefined
    THEN Returned(Undefined)
    ELSE Returned(AssertError("unexpected \"" \o name \o "\" header field"))

\* The function wrapped by wrapAssertFn, applied to the response.
CallAssertFn(a, res) ==
  CASE a.kind = "fn" -> CallClosure(a, res)
    [] a.kind = "status" -> AssertStatus(a.expected, res)
    [] a.kind = "statusArray" -> AssertStatusArray(a.expected, res)
    [] a.kind = "body" -> AssertBody(a.expected, res)
    [] a.kind = "header" -> AssertHeader([name |-> a.name, value |-> a.value], res)
    [] a.kind = "headerPresent" -> AssertHeaderPresent(a.name, res)
    [] a.kind = "headerAbsent" -> AssertHeaderAbsent(a.name, res)

\* A wrapper that catches the raise and hands back nothing.
WrapAssertFnLosesRaise(a, res) ==
  IF CallAssertFn(a, res).threw THEN Undefined ELSE CallAssertFn(a, res).value

\* The closure wrapAssertFn returns: a raise of the wrapped function is caught
\* and handed back like a returned value.
WrapAssertFn(a, res) == CallAssertFn(a, res).value

\* An evaluator for which every truthy value handed back is a failure.
AssertFunctionAnyTruthy(a, res) ==
  IF Truthy(WrapAssertFn(a, res)) THEN WrapAssertFn(a, res) ELSE Undefined

\* Test._assertFunction(fn, res): only an Error is a failure.
AssertFunction(a, res) ==
  LET err == WrapAssertFn(a, res)
  IN IF InstanceOfError(err) THEN err ELSE Undefined

\* --------------------------------------------------------------- Test.assert
\* error codes and syscalls of a transport error; "" is an absent property
NoCode == ""
Codes == {"ECONNREFUSED", "ECONNRESET", "EPIPE", "ETIMEDOUT", "ENOTFOUND", "constructor", NoCode}
Syscalls == {"connect", "read", ""}

\* sysErrors[code]: the table of Test.assert, read as JavaScript reads a
\* property of an object literal ("" is undefined).  A name the literal does
\* not define is looked up on Object.prototype, where "constructor" is found.
SysErrors(code) ==
  CASE code = "ECONNREFUSED" -> "Connection refused"
    [] code = "ECONNRESET" -> "Connection reset by peer"
    [] code = "EPIPE" -> "Broken pipe"
    [] code = "ETIMEDOUT" -> "Operation timed out"
    [] code = "constructor" -> "function Object() { [native code] }"
    [] OTHER -> ""

\* The first block left out: a transport error without a response is no failure yet.
TransportFailureSkipped(resError, res) == Undefined

\* The first block without its test of the syscall.
TransportFailureAnySyscall(resError, res) ==
  IF ~Truthy(res) /\ Truthy(resError)
  THEN IF /\ InstanceOfError(resError)
          /\ resError.code # ""
          /\ SysErrors(resError.code) # ""
       THEN NewError(resError.code \o ": " \o SysErrors(resError.code))
       ELSE resError
  ELSE Undefined

\* The first block of Test.assert: the failure taken from the transport error
\* when there is no response (undefined when the block does not apply).
TransportFailure(resError, res) ==
  IF ~Truthy(res) /\ Truthy(resError)
  THEN IF /\ InstanceOfError(resError)
          /\ resError.syscall = "connect"
          /\ resError.code # ""
          /\ SysErrors(resError.code) # ""
       THEN NewError(resError.code \o ": " \o SysErrors(resError.code))
       ELSE resError
  ELSE Undefined

\* A body assertion that uses up the raw text it read.
AfterCallTextConsumed(a, res) ==
  IF ~Truthy(res) THEN res
  ELSE IF a.kind = "body" THEN [res EXCEPT !.text = Str("")]
  ELSE IF a.kind = "fn" /\ a.does = "setBody" THEN [res EXCEPT !.body = Obj("{ first: 1 }")]
  ELSE IF a.kind = "fn" /\ a.does = "setText" THEN [res EXCEPT !.text = Str("gone")]
  ELSE res

\* The response after assertion a was called on it: a closure that writes
\* to it has changed the one object every assertion and the callback are
\* given; the built-in assertions and the other closures only read it.
AfterCall(a, res) ==
  IF ~Truthy(res) THEN res
  ELSE IF a.kind = "fn" /\ a.does = "setBody" THEN [res EXCEPT !.body = Obj("{ first: 1 }")]
  ELSE IF a.kind = "fn" /\ a.does = "setText" THEN [res EXCEPT !.text = Str("gone")]
  ELSE res

\* The loop without its stop at the first failure: every assertion is called
\* and the last outcome stands.
RECURSIVE AssertLoopToTheEnd(_, _, _, _, _)
AssertLoopToTheEnd(q, res, i, errorObj, invoked) ==
  IF i <= Len(q)
  THEN AssertLoopToTheEnd(q, AfterCall(q[i], res), i + 1, AssertFunction(q[i], res),
                          Append(invoked, i))
  ELSE [errorObj |-> errorObj, invoked |-> invoked, res |-> res]

\* A loop that calls every assertion on a copy of the response as it came.
RECURSIVE AssertLoopOnCopies(_, _, _, _, _)
AssertLoopOnCopies(q, res, i, errorObj, invoked) ==
  IF i <= Len(q) /\ ~Truthy(errorObj)
  THEN AssertLoopOnCopies(q, res, i + 1, AssertFunction(q[i], res), Append(invoked, i))
  ELSE [errorObj |-> errorObj, invoked |-> invoked, res |-> res]

\* The loop of Test.assert over this._asserts, from index i with errorObj as
\* it stands: [errorObj, invoked, res], invoked being the indices it called
\* and res the response as the calls left it.
RECURSIVE AssertLoop(_, _, _, _, _)
AssertLoop(q, res, i, errorObj, invoked) ==
  IF i <= Len(q) /\ ~Truthy(errorObj)
  THEN AssertLoop(q, AfterCall(q[i], res), i + 1, AssertFunction(q[i], res),
                  Append(invoked, i))
  ELSE [errorObj |-> errorObj, invoked |-> invoked, res |-> res]

\* A last block in which the transport error replaces the failure of an
\* assertion.
PromoteOverFailure(errorObj, resError, res) ==
  IF InstanceOfError(resError) /\ (~Truthy(res) \/ resError.status # res.status)
  THEN resError
  ELSE errorObj

\* The last block without its comparison of the statuses.
PromoteAnyTransportError(errorObj, resError, res) ==
  IF ~Truthy(errorObj) /\ InstanceOfError(resError) THEN resError ELSE errorObj

\* The last block of Test.assert: the transport error is the failure when
\* nothing else failed and it is without a response or disagrees on the status.
PromoteTransportError(errorObj, resError, res) ==
  IF /\ ~Truthy(errorObj)
     /\ InstanceOfError(resError)
     /\ (~Truthy(res) \/ resError.status # res.status)
  THEN resError
  ELSE errorObj

\* An assert that hands the callback no response when there is a failure.
TestAssertDropsResponse(resError, res, q) ==
  LET loop == AssertLoop(q, res, 1, TransportFailure(resError, res), <<>>)
      errorObj == PromoteTransportError(loop.errorObj, resError, res)
  IN [err |-> IF Truthy(errorObj) THEN errorObj ELSE Null,
      res |-> IF Truthy(errorObj) THEN Undefined ELSE res,
      invoked |-> loop.invoked]

\* Test.assert(resError, res, fn) on the queue q: the arguments fn is called
\* with, and the assertions invoked on the way.
TestAssert(resError, res, q) ==
  LET loop == AssertLoop(q, res, 1, TransportFailure(resError, res), <<>>)
      errorObj == PromoteTransportError(loop.errorObj, resError, res)
  IN [err |-> IF Truthy(errorObj) THEN errorObj ELSE Null,
      res |-> loop.res,
      invoked |-> loop.invoked]

\* --------------------------------------------------------------- Test.expect
\* The closures one call of expect(a, b, c) pushes, argc being arguments.length
\* and len the length of the queue before the call.
IsNumberArray(a) ==
  /\ a.type = "array"
  /\ Len(a.elems) > 0
  /\ \A i \in 1..Len(a.elems) : TypeOf(a.elems[i]) = "number"

\* The overloads with the header test ahead of the status-set test.
ExpectPushesHeaderFirst(a, b, argc, len) ==
  IF TypeOf(a) = "function"
  THEN <<[kind |-> "fn", id |-> len + 1, does |-> a.does]>>
  ELSE IF TypeOf(a) = "number"
  THEN <<[kind |-> "status", expected |-> a.n]>>
       \o (IF TypeOf(b) # "function" /\ argc > 1
           THEN <<[kind |-> "body", expected |-> b]>>
           ELSE <<>>)
  ELSE IF TypeOf(b) \in {"string", "number"} \/ b.type = "regexp"
  THEN <<[kind |-> "header", name |-> StringOf(a), value |-> b]>>
  ELSE IF IsNumberArray(a)
  THEN <<[kind |-> "statusArray", expected |-> a.elems]>>
  ELSE <<[kind |-> "body", expected |-> a]>>

\* The overloads with a body assertion only for a truthy second argument.
ExpectPushesTruthyBody(a, b, argc, len) ==
  IF TypeOf(a) = "function"
  THEN <<[kind |-> "fn", id |-> len + 1, does |-> a.does]>>
  ELSE IF TypeOf(a) = "number"
  THEN <<[kind |-> "status", expected |-> a.n]>>
       \o (IF TypeOf(b) # "function" /\ b \notin {Undefined, Null, Str(""), Num(0)}
           THEN <<[kind |-> "body", expected |-> b]>>
           ELSE <<>>)
  ELSE IF IsNumberArray(a)
  THEN <<[kind |-> "statusArray", expected |-> a.elems]>>
  ELSE IF TypeOf(b) \in {"string", "number"} \/ b.type = "regexp"
  THEN <<[kind |-> "header", name |-> StringOf(a), value |-> b]>>
  ELSE <<[kind |-> "body", expected |-> a]>>

ExpectPushes(a, b, argc, len) ==
  IF TypeOf(a) = "function"
  THEN <<[kind |-> "fn", id |-> len + 1, does |-> a.does]>>
  ELSE IF TypeOf(a) = "number"
  THEN <<[kind |-> "status", expected |-> a.n]>>
       \o (IF TypeOf(b) # "function" /\ argc > 1
           THEN <<[kind |-> "body", expected |-> b]>>
           ELSE <<>>)
  ELSE IF IsNumberArray(a)
  THEN <<[kind |-> "statusArray", expected |-> a.elems]>>
  ELSE IF TypeOf(b) \in {"string", "number"} \/ b.type = "regexp"
  THEN <<[kind |-> "header", name |-> StringOf(a), value |-> b]>>
  ELSE <<[kind |-> "body", expected |-> a]>>

\* A callback that is only looked for once a status was recognised.
ExpectEndsOnStatusOnly(a, b, c) ==
  IF TypeOf(a) # "number" THEN 0
  ELSE (IF TypeOf(b) = "function" THEN 1 ELSE 0)
       + (IF TypeOf(c) = "function" THEN 1 ELSE 0)

\* The calls of this.end one call of expect(a, b, c) makes: none when a is a
\* function, else one for b and one for c, each when it is a function.
ExpectEnds(a, b, c) ==
  IF TypeOf(a) = "function" THEN 0
  ELSE (IF TypeOf(b) = "function" THEN 1 ELSE 0)
       + (IF TypeOf(c) = "function" THEN 1 ELSE 0)

\* -------------------------------------------------------------------- state
VARIABLES
  app,      \* the factory's app: "string" (a base URL) or "server"
  handle,   \* the server has a live _handle (it is listening, address() is set)
  closing,  \* close() was called on the server and its 'close' event is due
  port,     \* the port of the server's address
  waiters,  \* the Tests whose close callback waits for the server's 'close' event
  pc,       \* where each Test is: none, idle, dispatched, closing, done
  server,   \* Test._server is set: the Test bound the server itself
  url,      \* the port in Test.url
  asserts,  \* Test._asserts
  round,    \* the (err, res) the transport completed the round trip with
  invoked,  \* the indices of the assertions Test.assert invoked, in order
  result,   \* the (err, res) the completion callback was called with
  trace,    \* what happened to each Test, in order
  threw,    \* the call of a Test that threw last: "end", "expect", "" if none did
  factory,  \* the Request or TestAgent the Tests are made from
  req       \* what each Test is as a request: protocol, host header, cookies

vars == <<app, handle, closing, port, waiters, pc, server, url, asserts, round, invoked,
          result, trace, threw, factory, req>>

\* The application references a factory is built on: a base URL, a server
\* that is already listening, a server not yet bound, a handler function.
AppKinds == {"string", "listening", "server", "function"}

\* The Request constructor: a handler function is wrapped in a new server,
\* which is not bound; anything else is kept as it is.
RequestApp(appOrListener) ==
  IF appOrListener = "function" THEN "server"
  ELSE IF appOrListener = "listening" THEN "server"
  ELSE appOrListener

Count(s, e) == Cardinality({i \in DOMAIN s : s[i] = e})
Dispatches(t) == Count(trace[t], "dispatch")
Called(t) == Count(trace[t], "callback")
Closes(t) == Count(trace[t], "close")

NoRound == [err |-> Null, res |-> Undefined]

\* The cookies of the Set-Cookie header of a response, which Node hands over
\* as an array of texts.
SetCookies(res) ==
  LET v == HeaderOf(res, "set-cookie")
  IN IF v = Undefined THEN {} ELSE {c.s : c \in Range(v.elems)}

\* An agent that keeps no cookie.
SaveCookiesSkipped(jar, res) == jar

\* Agent._saveCookies(res), the listener of 'response' and 'redirect': the
\* cookies the response sets are merged into the jar.
SaveCookies(jar, res) == jar \cup SetCookies(res)

\* An agent that attaches no cookie.
AttachCookiesNothing(jar) == {}

\* Agent._attachCookies(req): req.cookies becomes the text of the cookies the
\* jar holds at the call.
AttachCookies(jar) == jar

\* A Test that is not made yet.
NoRequest ==
  [http2 |-> FALSE, host |-> Undefined, cookies |-> {}, redirects |-> 0,
   redirected |-> <<>>, sent |-> <<>>]

\* An agent that sets no host header.
HostHeaderDropped(f) == Undefined

\* The host header of a new Test of an agent: req.set('host', this._host)
\* for a truthy _host, then _setDefaults, which replays the calls of set
\* recorded on the agent, the last of them last.
HostHeader(f) ==
  LET hosted == IF f.host \notin {Undefined, Str("")} THEN f.host ELSE Undefined
  IN IF f.defaults # <<>> THEN f.defaults[Len(f.defaults)] ELSE hosted

\* Request._testRequest and TestAgent._testRequest, after new Test(...): the
\* Test is put in HTTP/2 mode when #http2 is set; an agent sets the host
\* header and attaches the cookies of its jar.  The Test constructor has set
\* redirects(0).
TestRequest(f) ==
  [http2 |-> f.http2,
   host |-> IF f.agent THEN HostHeader(f) ELSE Undefined,
   cookies |-> IF f.agent THEN AttachCookies(f.jar) ELSE {},
   redirects |-> 0,
   redirected |-> <<>>,
   sent |-> <<>>]

\* The listener of 'response' of a Test: an agent saves the cookies.
OnResponse(f, res) ==
  IF f.agent /\ Truthy(res) THEN [f EXCEPT !.jar = SaveCookies(@, res)] ELSE f

\* The constructor of Request (isAgent is FALSE) or TestAgent on appOrListener
\* with options.http2 = http2: #http2 is set in the branch of a handler
\* function only.
Constructed(appOrListener, isAgent, http2) ==
  /\ app = RequestApp(appOrListener)
  /\ handle = (appOrListener = "listening")
  /\ closing = FALSE
  /\ port = IF appOrListener \in {"string", "listening"} THEN 1 ELSE 0
  /\ factory = [agent |-> isAgent,
                options |-> [http2 |-> http2],
                http2 |-> (appOrListener = "function" /\ http2),
                host |-> Undefined,
                defaults |-> <<>>,
                jar |-> {},
                returned |-> "nothing"]
  /\ req = [t \in TestIds |-> NoRequest]

\* The factory request(app) as its constructor leaves it, before any verb
\* call.
Init ==
  /\ \E appOrListener \in AppKinds : Constructed(appOrListener, FALSE, FALSE)
  /\ waiters = <<>>
  /\ pc = [t \in TestIds |-> "none"]
  /\ server = [t \in TestIds |-> FALSE]
  /\ url = [t \in TestIds |-> 0]
  /\ asserts = [t \in TestIds |-> <<>>]
  /\ round = [t \in TestIds |-> NoRound]
  /\ invoked = [t \in TestIds |-> <<>>]
  /\ result = [t \in TestIds |-> NoRound]
  /\ trace = [t \in TestIds |-> <<>>]
  /\ threw = ""

\* A serverAddress that never binds the server.
MustListenNever == FALSE

\* A serverAddress that binds a server only the first time.
MustListenOnce == ~handle /\ port = 0

\* Whether serverAddress binds the server: app.address() is null.
MustListen == ~handle

\* A verb call of the factory: Request._testRequest, the Test constructor and
\* Test.serverAddress.  Tests are numbered in the order of their creation.
NewTest(t) ==
  /\ pc[t] = "none"
  /\ \A u \in TestIds : u < t => pc[u] # "none"
  /\ pc' = [pc EXCEPT ![t] = "idle"]
  /\ req' = [req EXCEPT ![t] = TestRequest(factory)]
  /\ UNCHANGED factory
  /\ IF app = "string"
     THEN /\ url' = [url EXCEPT ![t] = port]
          /\ UNCHANGED <<handle, port, server, trace>>
     ELSE IF MustListen
     THEN /\ handle' = TRUE
          /\ port' = port + 1
          /\ server' = [server EXCEPT ![t] = TRUE]
          /\ url' = [url EXCEPT ![t] = port + 1]
          /\ trace' = [trace EXCEPT ![t] = Append(@, "listen")]
     ELSE /\ url' = [url EXCEPT ![t] = port]
          /\ UNCHANGED <<handle, port, server, trace>>
  /\ UNCHANGED <<app, closing, waiters, asserts, round, invoked, result, threw>>

\* A transport whose end may be called again.
EndCalledAgain(n) == FALSE

\* superagent's Request.end, which Test.end reaches as super.end, throws when
\* end was called on the request before (n calls went through).
EndCalledTwice(n) == n > 0

\* The calls of end that go through, of n calls made one after the other on a
\* Test that d calls went through on before; the first that throws ends the
\* caller.
RECURSIVE EndsThrough(_, _)
EndsThrough(d, n) ==
  IF n = 0 \/ EndCalledTwice(d) THEN 0 ELSE 1 + EndsThrough(d + 1, n - 1)

Repeat(e, n) == [i \in 1..n |-> e]

\* Test.end(fn), called n times in a row by `caller` (once by the user of the
\* Test, or by expect for its callbacks): each call that goes through hands
\* the request to the transport.
EndCalls(t, n, caller) ==
  LET through == EndsThrough(Dispatches(t), n)
  IN /\ trace' = [trace EXCEPT ![t] = @ \o Repeat("dispatch", through)]
     /\ pc' = [pc EXCEPT ![t] = IF through > 0 /\ @ = "idle" THEN "dispatched" ELSE @]
     /\ threw' = IF through < n THEN caller ELSE threw
     /\ req' = [req EXCEPT ![t].sent =
                  IF through > 0 /\ @ = <<>> THEN <<req[t].cookies>> ELSE @]

\* Test.end(fn), called by the user of the Test.
End(t) ==
  /\ pc[t] # "none"
  /\ EndCalls(t, 1, "end")
  /\ UNCHANGED <<app, handle, closing, port, waiters, server, url, asserts, round,
                 invoked, result, factory>>

Arg(args, i) == IF i <= Len(args) THEN args[i] ELSE Undefined

\* An expect that pushes onto a queue the Tests of a factory share.
ExpectOnSharedQueue(t, args, max) ==
  LET a == Arg(args, 1)
      b == Arg(args, 2)
      c == Arg(args, 3)
      ends == ExpectEnds(a, b, c)
      pushes == ExpectPushes(a, b, Len(args), Len(asserts[t]))
      completes == EndsThrough(Dispatches(t), ends) = ends
  IN /\ pc[t] \in {"idle", "dispatched", "closing"}
     /\ Len(asserts[t]) + Len(pushes) <= max
     /\ EndCalls(t, ends, "expect")
     /\ asserts' = [u \in TestIds |-> IF completes THEN asserts[u] \o pushes ELSE asserts[u]]
     /\ UNCHANGED <<app, handle, closing, port, waiters, server, url, round, invoked,
                    result, factory>>

\* An expect that, once the request is dispatched, enqueues ahead of the
\* assertions that wait.
ExpectLateToTheFront(t, args, max) ==
  LET a == Arg(args, 1)
      b == Arg(args, 2)
      c == Arg(args, 3)
      ends == ExpectEnds(a, b, c)
      pushes == ExpectPushes(a, b, Len(args), Len(asserts[t]))
      completes == EndsThrough(Dispatches(t), ends) = ends
  IN /\ pc[t] \in {"idle", "dispatched", "closing"}
     /\ Len(asserts[t]) + Len(pushes) <= max
     /\ EndCalls(t, ends, "expect")
     /\ asserts' = [asserts EXCEPT ![t] =
                      IF ~completes THEN @
                      ELSE IF Dispatches(t) = 0 THEN @ \o pushes ELSE pushes \o @]
     /\ UNCHANGED <<app, handle, closing, port, waiters, server, url, round, invoked,
                    result, factory>>

\* Test.expect(a, b, c) with the arguments args: the calls of end for a
\* callback in b and in c, then the push of the assertions.  An end that
\* throws ends expect before anything is pushed.  It is called on a Test whose
\* callback has not run yet: after that nothing reads the queue.
Expect(t, args, max) ==
  LET a == Arg(args, 1)
      b == Arg(args, 2)
      c == Arg(args, 3)
      ends == ExpectEnds(a, b, c)
      pushes == ExpectPushes(a, b, Len(args), Len(asserts[t]))
      completes == EndsThrough(Dispatches(t), ends) = ends
  IN /\ pc[t] \in {"idle", "dispatched", "closing"}
     /\ Len(asserts[t]) + Len(pushes) <= max
     /\ EndCalls(t, ends, "expect")
     /\ asserts' = [asserts EXCEPT ![t] = IF completes THEN @ \o pushes ELSE @]
     /\ UNCHANGED <<app, handle, closing, port, waiters, server, url, round, invoked,
                    result, factory>>

\* expectHeader(name, fn) and unexpectHeader(name, fn): the assertion of the
\* given kind on the header is enqueued, and a callback fn dispatches the
\* request as the callback of expect does.
ExpectHeaderKind(t, kind, name, fn, max) ==
  LET ends == IF TypeOf(fn) = "function" THEN 1 ELSE 0
      completes == EndsThrough(Dispatches(t), ends) = ends
  IN /\ pc[t] \in {"idle", "dispatched", "closing"}
     /\ Len(asserts[t]) + 1 <= max
     /\ EndCalls(t, ends, "expect")
     /\ asserts' = [asserts EXCEPT ![t] =
                      IF completes THEN Append(@, [kind |-> kind, name |-> name]) ELSE @]
     /\ UNCHANGED <<app, handle, closing, port, waiters, server, url, round, invoked,
                    result, factory>>

\* Test.expectHeader(name, fn)
ExpectHeader(t, name, fn, max) == ExpectHeaderKind(t, "headerPresent", name, fn, max)

\* Test.unexpectHeader(name, fn)
UnexpectHeader(t, name, fn, max) == ExpectHeaderKind(t, "headerAbsent", name, fn, max)

\* localAssert of Test.end for the Tests in S, each on its round rnd[u]:
\* Test.assert on the queue as it stands, then the completion callback.
LocalAssert(S, rnd, before) ==
  LET out(u) == TestAssert(rnd[u].err, rnd[u].res, asserts[u])
  IN /\ invoked' = [u \in TestIds |-> IF u \in S THEN out(u).invoked ELSE invoked[u]]
     /\ result' = [u \in TestIds |->
                     IF u \in S THEN [err |-> out(u).err, res |-> out(u).res]
                     ELSE result[u]]
     /\ pc' = [u \in TestIds |-> IF u \in S THEN "done" ELSE pc[u]]
     /\ trace' = [u \in TestIds |->
                    IF u \in S THEN trace[u] \o before \o <<"assert", "callback">>
                    ELSE trace[u]]

\* A Test that closes no server.
ClosesServerNever(t) == FALSE

\* A Test that closes whatever server is listening.
ClosesAnyServer(t) == handle

\* Whether the callback Test.end gave the transport closes the server first:
\* the Test has a _server and that server has a live _handle.
ClosesServer(t) == server[t] /\ handle

\* A close that forgets the callback it was given.
CloseForgets(listeners, t) == listeners

\* server.close(localAssert) registers localAssert of Test t for the server's
\* next 'close' event.
OnceClose(listeners, t) == Append(listeners, t)

\* A completion that closes the server and does not wait for the close.
CompleteNoWait(t, o) ==
  /\ pc[t] = "dispatched"
  /\ round' = [round EXCEPT ![t] = o]
  /\ factory' = OnResponse(factory, o.res)
  /\ IF ClosesServer(t)
     THEN /\ handle' = FALSE
          /\ closing' = TRUE
          /\ LocalAssert({t}, round', <<"response", "close">>)
          /\ UNCHANGED waiters
     ELSE /\ LocalAssert({t}, round', <<"response">>)
          /\ UNCHANGED <<handle, closing, waiters>>
  /\ UNCHANGED <<app, port, server, url, asserts, threw, req>>

\* A completion that evaluates the assertions before it closes the server.
CompleteAssertsFirst(t, o) ==
  /\ pc[t] = "dispatched"
  /\ round' = [round EXCEPT ![t] = o]
  /\ factory' = OnResponse(factory, o.res)
  /\ IF ClosesServer(t)
     THEN /\ handle' = FALSE
          /\ closing' = TRUE
          /\ waiters' = OnceClose(waiters, t)
          /\ pc' = [pc EXCEPT ![t] = "closing"]
          /\ trace' = [trace EXCEPT ![t] = @ \o <<"response", "assert", "close">>]
          /\ UNCHANGED <<invoked, result>>
     ELSE /\ LocalAssert({t}, round', <<"response">>)
          /\ UNCHANGED <<handle, closing, waiters>>
  /\ UNCHANGED <<app, port, server, url, asserts, threw, req>>

\* The transport completes the round trip of Test t with o = (err, res): the
\* callback Test.end handed to super.end.  server.close(localAssert) drops the
\* handle at once and calls localAssert on the 'close' event.
Complete(t, o) ==
  /\ pc[t] = "dispatched"
  /\ round' = [round EXCEPT ![t] = o]
  /\ factory' = OnResponse(factory, o.res)
  /\ IF ClosesServer(t)
     THEN /\ handle' = FALSE
          /\ closing' = TRUE
          /\ waiters' = OnceClose(waiters, t)
          /\ pc' = [pc EXCEPT ![t] = "closing"]
          /\ trace' = [trace EXCEPT ![t] = @ \o <<"response", "close">>]
          /\ UNCHANGED <<invoked, result>>
     ELSE /\ LocalAssert({t}, round', <<"response">>)
          /\ UNCHANGED <<handle, closing, waiters>>
  /\ UNCHANGED <<app, port, server, url, asserts, threw, req>>

\* The server's 'close' event: it is emitted once a close is due and the
\* server has no handle, and calls every callback close() registered.
CloseEvent ==
  /\ ~handle
  /\ closing
  /\ closing' = FALSE
  /\ LocalAssert(Range(waiters), round, <<"closed">>)
  /\ waiters' = <<>>
  /\ UNCHANGED <<app, handle, port, server, url, asserts, round, threw, factory, req>>

\* The caller closes the server it gave the factory (or reached as
\* test._server), as the tests do with servers they started: close() drops
\* the handle at once, the 'close' event follows.
CallerCloses ==
  /\ app = "server"
  /\ handle
  /\ handle' = FALSE
  /\ closing' = TRUE
  /\ UNCHANGED <<app, port, waiters, pc, server, url, asserts, round, invoked, result,
                 trace, threw, factory, req>>

\* TestAgent.host(host): the host is kept for the Tests to come, and the
\* agent is returned.
Host(h) ==
  /\ factory.agent
  /\ factory' = [factory EXCEPT !.host = h, !.returned = "agent"]
  /\ UNCHANGED <<app, handle, closing, port, waiters, pc, server, url, asserts, round,
                 invoked, result, trace, threw, req>>

\* agent.set('host', v), a method the agent has from superagent: the call is
\* recorded among the defaults _setDefaults replays on every new Test.
AgentSet(v) ==
  /\ factory.agent
  /\ Len(factory.defaults) < MaxDefaults
  /\ factory' = [factory EXCEPT !.defaults = Append(@, v), !.returned = "agent"]
  /\ UNCHANGED <<app, handle, closing, port, waiters, pc, server, url, asserts, round,
                 invoked, result, trace, threw, req>>

\* test.redirects(n), a method the Test has from superagent, called before
\* the Test is dispatched: up to n redirect hops are followed.
Redirects(t, n) ==
  /\ pc[t] = "idle"
  /\ req[t].redirects # n
  /\ req' = [req EXCEPT ![t].redirects = n]
  /\ UNCHANGED <<app, handle, closing, port, waiters, pc, server, url, asserts, round,
                 invoked, result, trace, threw, factory>>

\* The cookies a hop is sent with: those of the hop before, merged with
\* req.cookies.
HopCookies(r, cookies) == r.sent[Len(r.sent)] \cup cookies

\* A redirect hop that attaches the jar before the cookies of the
\* redirecting response are saved.
RedirectAttachesFirst(t, res) ==
  /\ pc[t] = "dispatched"
  /\ Len(req[t].redirected) < req[t].redirects
  /\ factory' = OnResponse(factory, res)
  /\ LET cookies == IF factory.agent THEN AttachCookies(factory.jar) ELSE req[t].cookies
     IN req' = [req EXCEPT ![t].cookies = cookies,
                           ![t].redirected = Append(@, res),
                           ![t].sent = Append(@, HopCookies(req[t], cookies))]
  /\ trace' = [trace EXCEPT ![t] = Append(@, "redirect")]
  /\ UNCHANGED <<app, handle, closing, port, waiters, pc, server, url, asserts, round,
                 invoked, result, threw>>

\* The transport follows a redirect of Test t, which allows one more hop: it
\* emits 'redirect' with the redirecting response, for which an agent has
\* registered _saveCookies and then _attachCookies, and sends the request
\* again.
Redirect(t, res) ==
  /\ pc[t] = "dispatched"
  /\ Len(req[t].redirected) < req[t].redirects
  /\ factory' = OnResponse(factory, res)
  /\ LET cookies == IF factory.agent THEN AttachCookies(factory'.jar) ELSE req[t].cookies
     IN req' = [req EXCEPT ![t].cookies = cookies,
                           ![t].redirected = Append(@, res),
                           ![t].sent = Append(@, HopCookies(req[t], cookies))]
  /\ trace' = [trace EXCEPT ![t] = Append(@, "redirect")]
  /\ UNCHANGED <<app, handle, closing, port, waiters, pc, server, url, asserts, round,
                 invoked, result, threw>>

\* ------------------------------------------------------------ specifications
Callback == Fn("callback")
Closures == {Fn(d) : d \in ClosureDoes}

\* The arguments of expect in the factory with several Tests.
FewArgs == {<<Num(200)>>, <<Num(200), Callback>>}

\* The arguments of expect of a Test on its own: a status or a custom closure,
\* alone, with a callback, and with a callback in both trailing positions.
ManyArgs ==
  LET first == {Num(200), Num(500)} \cup Closures
  IN {<<a>> : a \in first} \cup {<<a, Callback>> : a \in first}
     \cup {<<a, Callback, Callback>> : a \in first}

\* What a round trip can end with: a response with no error, with the HTTP
\* error of its status, or with an error of another or of no status; no
\* response with a transport error, or with nothing at all.
ManyRounds ==
  {[err |-> e, res |-> r] :
     e \in {Null} \cup {ResponseError(st, NoCode, "") : st \in Statuses \cup {NoStatus}},
     r \in Responses}
  \cup {[err |-> e, res |-> Undefined] :
     e \in {Null} \cup {ResponseError(NoStatus, co, sy) : co \in Codes, sy \in Syscalls}}

\* Among several Tests: a 500 response with its HTTP error (which passes an
\* empty queue and fails expect(200)), or no response and a refused connection.
FewRounds ==
  {[err |-> ResponseError(500, NoCode, ""), res |-> Response(500)],
   [err |-> ResponseError(NoStatus, "ECONNREFUSED", "connect"), res |-> Undefined]}

\* One factory and the Tests made from it.
Next ==
  \/ \E t \in TestIds : NewTest(t)
  \/ \E t \in TestIds : \E args \in FewArgs : Expect(t, args, MaxQueue)
  \/ \E t \in TestIds : End(t)
  \/ \E t \in TestIds : \E o \in FewRounds : Complete(t, o)
  \/ CloseEvent
  \/ CallerCloses

Spec == Init /\ [][Next]_vars

\* The factory and its Tests, each ended by end(cb) or by expect(200, cb).
NextLive ==
  \/ \E t \in TestIds : NewTest(t)
  \/ \E t \in TestIds : Expect(t, <<Num(200), Callback>>, MaxQueue)
  \/ \E t \in TestIds : End(t)
  \/ \E t \in TestIds : \E o \in FewRounds : Complete(t, o)
  \/ CloseEvent
  \/ CallerCloses

\* The same, where every round trip handed to the transport completes and the
\* 'close' event of a server left without a handle is emitted.
FairSpec ==
  /\ Init
  /\ [][NextLive]_vars
  /\ \A t \in TestIds : WF_vars(\E o \in FewRounds : Complete(t, o))
  /\ WF_vars(CloseEvent)

\* One Test of the factory, with every shape of expect and of round trip.
NextOne ==
  \/ NewTest(1)
  \/ \E args \in ManyArgs : Expect(1, args, MaxAsserts)
  \/ End(1)
  \/ \E o \in ManyRounds : Complete(1, o)
  \/ CloseEvent
  \/ CallerCloses

SpecOne == Init /\ [][NextOne]_vars

\* The first arguments of expect, of every kind its overloads tell apart.
ShapeFirst ==
  {Fn("pass"), Num(200), Num(500),
   Arr(<<Num(200)>>), Arr(<<Num(200), Num(500)>>),
   Arr(<<>>), Arr(<<Num(200), Str("a")>>),
   Str("Content-Length"), Str("set-cookie"), Str("foo"),
   Regexp("^f", {"foo"}), Obj("{}"), Null}

\* The second arguments that are no function: texts (the empty one too),
\* numbers (zero too), a pattern, null and a supplied undefined.
ShapeSecond ==
  {Str("3"), Str(""), Str("a,b"), Str("foo"), Num(3), Num(4), Num(0),
   Regexp("^3", {"3"}), Null, Undefined}

\* expect(a), expect(a, b), expect(a, fn), expect(a, b, fn)
ShapeArgs ==
  {<<a>> : a \in ShapeFirst}
  \cup {<<a, b>> : a \in ShapeFirst, b \in ShapeSecond}
  \cup {<<a, Callback>> : a \in ShapeFirst}
  \cup {<<a, b, Callback>> : a \in ShapeFirst, b \in ShapeSecond}

\* The headers of a response: none of interest, a Content-Length, or a
\* Content-Length and a Set-Cookie with two values.
ShapeHeaders ==
  {<<>>,
   <<[key |-> "content-length", value |-> Str("3")]>>,
   <<[key |-> "content-length", value |-> Str("3")],
     [key |-> "set-cookie", value |-> Arr(<<Str("a"), Str("b")>>)]>>}

\* The header names asked for: one in another case than the response has
\* it, one as the response has it, one no response carries.
ShapeNames == {"Content-Length", "set-cookie", "Foo-Bar"}

\* The round trips of a Test whose assertions read the whole response: a
\* text response of either status, an empty JSON array, or a refused
\* connection.
ShapeRounds ==
  {[err |-> Null, res |-> FullResponse(st, text, Obj("{}"), h)] :
     st \in Statuses, text \in {Str("foo"), Str("")}, h \in ShapeHeaders}
  \cup {[err |-> Null, res |-> FullResponse(200, Str("[]"), Arr(<<>>), <<>>)],
        [err |-> ResponseError(NoStatus, "ECONNREFUSED", "connect"), res |-> Undefined]}

\* One Test on a base URL that takes one call of expect, of any shape, and
\* is dispatched by that call when it has a callback.
NextShapes ==
  \/ NewTest(1)
  \/ \E args \in ShapeArgs : asserts[1] = <<>> /\ Expect(1, args, MaxAsserts)
  \/ \E name \in ShapeNames, fn \in {Undefined, Callback} :
       asserts[1] = <<>> /\ ExpectHeader(1, name, fn, MaxAsserts)
  \/ \E name \in ShapeNames, fn \in {Undefined, Callback} :
       asserts[1] = <<>> /\ UnexpectHeader(1, name, fn, MaxAsserts)
  \/ \E o \in ShapeRounds : Complete(1, o)

\* The factory of such a Test is built on a base URL.
InitShapes == Init /\ app = "string"

SpecShapes == InitShapes /\ [][NextShapes]_vars

\* The hosts given to agent.host and agent.set('host', ...).
Hosts == {Str(""), Str("something.test")}
DefaultHosts == {Str("other.test")}

\* The cookies a response sets: none, or one of two.
CookieHeaders ==
  {<<>>,
   <<[key |-> "set-cookie", value |-> Arr(<<Str("cookie=hey")>>)]>>,
   <<[key |-> "set-cookie", value |-> Arr(<<Str("second=1")>>)]>>}

\* The round trips of the Tests of an agent: a response that sets cookies
\* or none, or a refused connection.
AgentRounds ==
  {[err |-> Null, res |-> FullResponse(200, Str(""), Obj("{}"), h)] : h \in CookieHeaders}
  \cup {[err |-> ResponseError(NoStatus, "ECONNREFUSED", "connect"), res |-> Undefined]}

\* The responses that redirect.
RedirectResponses == {FullResponse(302, Str(""), Obj("{}"), h) : h \in CookieHeaders}

\* An agent on a base URL and its Tests, which carry no assertions; the
\* first of them may follow redirects.
NextAgent ==
  \/ \E t \in TestIds : NewTest(t)
  \/ Redirects(1, MaxHops)
  \/ \E t \in TestIds : End(t)
  \/ \E res \in RedirectResponses : Redirect(1, res)
  \/ \E t \in TestIds : \E o \in AgentRounds : Complete(t, o)

\* request.agent(url)
InitAgent ==
  /\ Constructed("string", TRUE, FALSE)
  /\ waiters = <<>>
  /\ pc = [t \in TestIds |-> "none"]
  /\ server = [t \in TestIds |-> FALSE]
  /\ url = [t \in TestIds |-> 0]
  /\ asserts = [t \in TestIds |-> <<>>]
  /\ round = [t \in TestIds |-> NoRound]
  /\ invoked = [t \in TestIds |-> <<>>]
  /\ result = [t \in TestIds |-> NoRound]
  /\ trace = [t \in TestIds |-> <<>>]
  /\ threw = ""

SpecAgent == InitAgent /\ [][NextAgent]_vars

\* An agent that is given hosts and header defaults between its verb calls.
NextHost ==
  \/ \E t \in TestIds : NewTest(t)
  \/ \E h \in Hosts : Host(h)
  \/ \E v \in DefaultHosts : AgentSet(v)
  \/ \E t \in TestIds : End(t)
  \/ \E t \in TestIds : \E o \in FewRounds : Complete(t, o)

SpecHost == InitAgent /\ [][NextHost]_vars

\* A factory or an agent built with or without options.http2 on any kind of
\* application reference.
InitModes ==
  /\ \E appOrListener \in AppKinds, isAgent \in BOOLEAN, http2 \in BOOLEAN :
       Constructed(appOrListener, isAgent, http2)
  /\ waiters = <<>>
  /\ pc = [t \in TestIds |-> "none"]
  /\ server = [t \in TestIds |-> FALSE]
  /\ url = [t \in TestIds |-> 0]
  /\ asserts = [t \in TestIds |-> <<>>]
  /\ round = [t \in TestIds |-> NoRound]
  /\ invoked = [t \in TestIds |-> <<>>]
  /\ result = [t \in TestIds |-> NoRound]
  /\ trace = [t \in TestIds |-> <<>>]
  /\ threw = ""

\* Its Tests, which carry no assertions.
NextModes ==
  \/ \E t \in TestIds : NewTest(t)
  \/ \E t \in TestIds : End(t)
  \/ \E t \in TestIds : \E o \in FewRounds : Complete(t, o)
  \/ CloseEvent

SpecModes == InitModes /\ [][NextModes]_vars

\* The arguments of expect on a response closures write to: closures that
\* write or only read, bodies that hold before or after the writes, a
\* status, a set of statuses and a header.
MutateArgs ==
  {<<Fn(d)>> : d \in Mutations \cup {"pass", "returnError"}}
  \cup {<<b>> : b \in {Str("foo"), Str("gone"), Obj("{}"), Obj("{ first: 1 }")}}
  \cup {<<Num(200)>>, <<Arr(<<Num(200), Num(500)>>)>>,
        <<Str("Content-Length"), Str("3")>>}

\* The round trips of such a Test: a text response with a header, or an
\* empty one.
MutateRounds ==
  {[err |-> Null, res |-> FullResponse(200, text, Obj("{}"), h)] :
     text \in {Str("foo"), Str("")},
     h \in {<<>>, <<[key |-> "content-length", value |-> Str("3")]>>}}

\* One Test on a base URL whose closures may write to the response.
NextMutate ==
  \/ NewTest(1)
  \/ \E args \in MutateArgs : Expect(1, args, MaxAsserts)
  \/ End(1)
  \/ \E o \in MutateRounds : Complete(1, o)

SpecMutate == InitShapes /\ [][NextMutate]_vars

\* The arguments of expect without a callback.
LateArgs == {<<a>> : a \in {Num(200), Num(500)} \cup Closures}

\* One Test on a base URL that is dispatched by end before anything is
\* enqueued: every assertion of its queue was enqueued after the dispatch.
NextLate ==
  \/ NewTest(1)
  \/ asserts[1] = <<>> /\ End(1)
  \/ \E args \in LateArgs : Expect(1, args, MaxAsserts)
  \/ \E o \in ManyRounds : Complete(1, o)

SpecLate == InitShapes /\ [][NextLate]_vars

\* The round trips of nested requests: the handler answers, fails, or the
\* connection is refused.
NestedRounds ==
  {[err |-> Null, res |-> Response(200)],
   [err |-> ResponseError(500, NoCode, ""), res |-> Response(500)],
   [err |-> ResponseError(NoStatus, "ECONNREFUSED", "connect"), res |-> Undefined]}

\* Nested requests: each verb call is made in the completion callback of the
\* Test before.
NextNested ==
  \/ \E t \in TestIds : (\A u \in TestIds : u < t => pc[u] = "done") /\ NewTest(t)
  \/ \E t \in TestIds : \E args \in FewArgs : Expect(t, args, MaxQueue)
  \/ \E t \in TestIds : End(t)
  \/ \E t \in TestIds : \E o \in NestedRounds : Complete(t, o)
  \/ CloseEvent

\* request(app) on a handler function
InitNested ==
  /\ Constructed("function", FALSE, FALSE)
  /\ waiters = <<>>
  /\ pc = [t \in TestIds |-> "none"]
  /\ server = [t \in TestIds |-> FALSE]
  /\ url = [t \in TestIds |-> 0]
  /\ asserts = [t \in TestIds |-> <<>>]
  /\ round = [t \in TestIds |-> NoRound]
  /\ invoked = [t \in TestIds |-> <<>>]
  /\ result = [t \in TestIds |-> NoRound]
  /\ trace = [t \in TestIds |-> <<>>]
  /\ threw = ""

SpecNested == InitNested /\ [][NextNested]_vars

\* --------------------------------------------------------------- properties
IsPrefix(s, r) == Len(s) <= Len(r) /\ \A i \in 1..Len(s) : s[i] = r[i]

\* Whether assertion a yields an Error on res: it returns or throws one.
YieldsError(a, res) == InstanceOfError(CallAssertFn(a, res).value)

\* The index of the first assertion of q that yields an Error on res, 0 if none does.
FirstFailure(q, res) ==
  LET failing == {i \in 1..Len(q) : YieldsError(q[i], res)}
  IN IF failing = {} THEN 0 ELSE CHOOSE i \in failing : \A j \in failing : i <= j

UpTo(n) == [i \in 1..n |-> i]

\* C1: the queue of a Test only grows at its end, and when the round trip
\* ends with a response the assertions are invoked in the order of the queue,
\* up to and including the first that yields an Error, which is the error
\* the callback is given; no later assertion is invoked.
C1_InOrderUntilFirstFailure ==
  /\ [][\A t \in TestIds : IsPrefix(asserts[t], asserts'[t])]_vars
  /\ [](\A t \in TestIds :
          (pc[t] = "done" /\ Truthy(round[t].res)) =>
            LET k == FirstFailure(asserts[t], round[t].res)
            IN /\ invoked[t] = UpTo(IF k = 0 THEN Len(asserts[t]) ELSE k)
               /\ k # 0 => result[t].err = CallAssertFn(asserts[t][k], round[t].res).value)

\* A Test whose first assertion failed and whose second was never invoked.
C1_Witness ==
  /\ pc[1] = "done"
  /\ Truthy(round[1].res)
  /\ Len(asserts[1]) = MaxAsserts
  /\ asserts[1][1].kind = "fn"
  /\ invoked[1] = <<1>>
  /\ result[1].err = ClosureError(1)

\* C5: a Test hands its request to the transport at most once, whatever the
\* arguments of expect are (a callback in both trailing positions included).
C5_AtMostOneDispatch == \A t \in TestIds : Dispatches(t) <= 1

\* expect(a, fn, fn) on a fresh Test: the first end went through, the second threw.
C5_Witness ==
  /\ threw = "expect"
  /\ pc[1] = "dispatched"
  /\ Dispatches(1) = 1
  /\ asserts[1] = <<>>

\* C7: when the round trip ends with a transport error and no response, no
\* assertion is invoked, whatever the queue holds, and the callback's error
\* is that error or the error it was rewritten into.
C7_TransportErrorSkipsAsserts ==
  \A t \in TestIds :
    (pc[t] = "done" /\ ~Truthy(round[t].res) /\ round[t].err # Null) =>
      /\ invoked[t] = <<>>
      /\ result[t].err \in {round[t].err,
                            NewError(round[t].err.code \o ": " \o SysErrors(round[t].err.code))}

C7_Witness ==
  /\ pc[1] = "done"
  /\ ~Truthy(round[1].res)
  /\ round[1].err # Null
  /\ Len(asserts[1]) = MaxAsserts
  /\ invoked[1] = <<>>

\* The codes the table of Test.assert names, and the phrase of each.
RecognizedCodes == {"ECONNREFUSED", "ECONNRESET", "EPIPE", "ETIMEDOUT"}
NormalizedMessage(code) ==
  CASE code = "ECONNREFUSED" -> "ECONNREFUSED: Connection refused"
    [] code = "ECONNRESET" -> "ECONNRESET: Connection reset by peer"
    [] code = "EPIPE" -> "EPIPE: Broken pipe"
    [] code = "ETIMEDOUT" -> "ETIMEDOUT: Operation timed out"

\* A Test whose round trip ended with a transport error and no response.
FailedWithoutResponse(t) ==
  pc[t] = "done" /\ ~Truthy(round[t].res) /\ round[t].err # Null

\* C8 as stated: without a response, a transport error with one of the four
\* codes reaches the callback as '{CODE}: {phrase}', every other one unchanged.
C8_AsStated ==
  \A t \in TestIds :
    FailedWithoutResponse(t) =>
      IF round[t].err.code \in RecognizedCodes
      THEN result[t].err = NewError(NormalizedMessage(round[t].err.code))
      ELSE result[t].err = round[t].err

\* C8, amended: the error is rewritten into '{CODE}: {phrase}' when its
\* syscall is "connect" and its code is one of the four; it is unchanged when
\* its syscall is not "connect" or the table has no property of its code's
\* name; a code that names a property the table inherits is rewritten too.
C8_NormalizedOnConnectOnly ==
  \A t \in TestIds :
    FailedWithoutResponse(t) =>
      LET e == round[t].err
      IN /\ (e.syscall = "connect" /\ e.code \in RecognizedCodes)
              => result[t].err = NewError(NormalizedMessage(e.code))
         /\ (e.syscall # "connect" \/ e.code \in {"ENOTFOUND", NoCode})
              => result[t].err = e
         /\ (e.syscall = "connect" /\ e.code = "constructor")
              => result[t].err = NewError("constructor: function Object() { [native code] }")

\* ECONNRESET raised by a read: the callback gets the transport's own error.
C8_Witness ==
  /\ FailedWithoutResponse(1)
  /\ round[1].err.code = "ECONNRESET"
  /\ round[1].err.syscall = "read"
  /\ result[1].err = round[1].err

C10_AsStated ==
  \A t \in TestIds :
    ( /\ pc[t] = "done"
      /\ Truthy(round[t].res)
      /\ round[t].res.status \notin 200..299
      /\ round[t].err # Null
      /\ round[t].err.status = round[t].res.status
      /\ \A i \in 1..Len(asserts[t]) : asserts[t][i].kind # "status"
      /\ FirstFailure(asserts[t], round[t].res) = 0 )
    => result[t].err = round[t].err

\* The Test's steps in its trace: whether e comes before f wherever both occur.
Precedes(s, e, f) ==
  \A i, j \in DOMAIN s : (s[i] = e /\ s[j] = f) => i < j

\* The step is the one in which the completion callback of Test t is invoked.
CallsBack(t) == Called(t)' > Called(t)

\* C2 as stated: when a Test owns a server, the close of that server has
\* completed (the server has no handle and no close is pending) when the
\* completion callback is invoked.
C2_AsStated ==
  [][\A t \in TestIds : (server[t] /\ CallsBack(t)) => (~handle' /\ ~closing')]_vars

\* C2, amended: when a Test owns a server, the server has no handle when the
\* completion callback is invoked; when the handle was live at completion the
\* Test's close has completed before the callback (on success, on assertion
\* failure and on transport failure alike); when it was not, the callback is
\* invoked without a wait.
C2_ClosedBeforeCallback ==
  /\ [][\A t \in TestIds :
         (server[t] /\ CallsBack(t)) =>
           /\ ~handle'
           /\ Closes(t)' = 1 => (~closing' /\ Count(trace'[t], "closed") = 1)
           /\ Closes(t)' = 0 => pc[t] = "dispatched"]_vars
  /\ [](\A t \in TestIds :
         /\ Precedes(trace[t], "close", "closed")
         /\ Precedes(trace[t], "closed", "callback"))

\* Test 1 failed an assertion, Test 2 got no response: each closed the server
\* it bound and was called back after the 'close' event.
C2_Witness ==
  /\ server[1] /\ server[2]
  /\ pc[1] = "done" /\ pc[2] = "done"
  /\ result[1].err.type = "AssertError"
  /\ ~Truthy(result[2].res)
  /\ Count(trace[1], "closed") = 1
  /\ Count(trace[2], "closed") = 1

\* C3 as stated: a Test that owns a server and whose callback ran has invoked
\* close on it exactly once.
C3_AsStated ==
  \A t \in TestIds : (server[t] /\ Called(t) > 0) => Closes(t) = 1

\* C3, amended: a Test invokes close at most once, and only before its
\* callback; at completion an owning Test invokes it exactly once when the
\* server has a live handle and not at all when it has none.
C3_ClosedOnceIfLive ==
  /\ [](\A t \in TestIds : Closes(t) <= 1 /\ Precedes(trace[t], "close", "callback"))
  /\ [][\A t \in TestIds :
         (server[t] /\ pc[t] = "dispatched" /\ pc'[t] # "dispatched") =>
           Closes(t)' = IF handle THEN 1 ELSE 0]_vars

\* Test 1 closed the server it bound; Test 2 bound it again and found it
\* without a handle at completion.
C3_Witness ==
  /\ server[1] /\ server[2]
  /\ Called(1) = 1 /\ Called(2) = 1
  /\ Closes(1) = 1
  /\ Closes(2) = 0

\* The step is one of Test t: its position or its trace changes.
StepOf(t) == pc'[t] # pc[t] \/ trace'[t] # trace[t]

\* C4: a Test never starts or closes a server it did not bind: with a base
\* URL no listener is started; on a listening server the Test reuses the
\* address and takes no ownership; and no step of a Test that does not own
\* the server changes whether the server listens or closes.
C4_NeverClosesForeignServer ==
  /\ [](\A t \in TestIds :
         /\ Closes(t) > 0 => server[t]
         /\ server[t] <=> Count(trace[t], "listen") = 1
         /\ app = "string" => (~server[t] /\ ~handle /\ ~closing))
  /\ [][\A t \in TestIds :
         /\ (pc[t] = "none" /\ pc'[t] # "none" /\ (handle \/ app = "string")) =>
              (~server'[t] /\ url'[t] = port /\ port' = port /\ handle' = handle)
         /\ (StepOf(t) /\ ~server'[t]) =>
              (handle' = handle /\ closing' = closing /\ waiters' = waiters)]_vars

\* A Test on a server that was listening before it: its callback ran on a
\* failed expect(200) and the server still listens at the address it used.
C4_Witness ==
  /\ app = "server"
  /\ ~server[1]
  /\ pc[1] = "done"
  /\ Len(asserts[1]) = 1
  /\ Closes(1) = 0
  /\ handle
  /\ url[1] = port

\* C6: the completion callback is invoked at most once; once a request is
\* dispatched, the round trip completing leads to the callback or to the wait
\* for the server's close, and that wait leads to the callback unless the
\* server is bound again before its 'close' event; a Test that finds its
\* server without a handle at completion is called back without a wait.
C6_CallbackEventuallyOnce ==
  /\ [](\A t \in TestIds : Called(t) <= 1)
  /\ [][\A t \in TestIds :
         (pc[t] = "dispatched" /\ ~ClosesServer(t) /\ pc'[t] # "dispatched")
           => CallsBack(t)]_vars
  /\ \A t \in TestIds :
       pc[t] = "dispatched" ~> (Called(t) = 1 \/ t \in Range(waiters))
  /\ \A t \in TestIds :
       (t \in Range(waiters) /\ ~handle) ~> (Called(t) = 1 \/ handle)

\* A Test that bound the server and found it closed by its caller at
\* completion: no close, one callback.
C6_Witness ==
  /\ server[1]
  /\ Dispatches(1) = 1
  /\ Closes(1) = 0
  /\ Count(trace[1], "closed") = 0
  /\ Called(1) = 1

\* The outcome of the i-th assertion of Test t on the response of its round.
Outcome(t, i) == CallAssertFn(asserts[t][i], round[t].res)

\* C11 as stated: an assertion that raises when invoked makes the raised
\* value the callback's error, and no later assertion is run.
C11_AsStated ==
  \A t \in TestIds :
    pc[t] = "done" =>
      \A i \in Range(invoked[t]) :
        Outcome(t, i).threw =>
          (result[t].err = Outcome(t, i).value /\ invoked[t] = UpTo(i))

\* C11, amended: a raise of an assertion is caught where it is invoked and
\* the callback still runs; the raised value is treated like a returned one:
\* an Error is the callback's error and ends the evaluation, a value that is
\* no Error is ignored and the next assertion is invoked.
C11_RaiseIsCaught ==
  \A t \in TestIds :
    pc[t] = "done" =>
      \A i \in Range(invoked[t]) :
        Outcome(t, i).threw =>
          /\ Called(t) = 1
          /\ IF InstanceOfError(Outcome(t, i).value)
             THEN result[t].err = Outcome(t, i).value /\ invoked[t] = UpTo(i)
             ELSE /\ result[t].err # Outcome(t, i).value
                  /\ i < Len(asserts[t]) => (i + 1) \in Range(invoked[t])

\* A closure that throws an Error, first of two: it alone is invoked and the
\* callback gets what it threw.
C11_Witness ==
  /\ pc[1] = "done"
  /\ Len(asserts[1]) = MaxAsserts
  /\ asserts[1][1].kind = "fn"
  /\ asserts[1][1].does = "throwError"
  /\ invoked[1] = <<1>>
  /\ result[1].err = ClosureError(1)
  /\ Called(1) = 1

\* C12: a value a custom closure returns is a failure only if it is an
\* Error; any other returned value is ignored: the next assertion is invoked
\* and the value is not the callback's error, which is null when nothing
\* else fails.
C12_OnlyErrorsArePromoted ==
  \A t \in TestIds :
    (pc[t] = "done" /\ Truthy(round[t].res)) =>
      /\ \A i \in Range(invoked[t]) :
           (asserts[t][i].kind = "fn" /\ ~Outcome(t, i).threw) =>
             IF InstanceOfError(Outcome(t, i).value)
             THEN result[t].err = Outcome(t, i).value /\ invoked[t] = UpTo(i)
             ELSE /\ result[t].err # Outcome(t, i).value \/ ~Truthy(Outcome(t, i).value)
                  /\ i < Len(asserts[t]) => (i + 1) \in Range(invoked[t])
      /\ ( /\ \A i \in 1..Len(asserts[t]) : ~InstanceOfError(Outcome(t, i).value)
           /\ round[t].err = Null )
         => (result[t].err = Null /\ invoked[t] = UpTo(Len(asserts[t])))

\* A closure that returns a string, then one that returns nothing: both are
\* invoked and the callback's error is null.
C12_Witness ==
  /\ pc[1] = "done"
  /\ Truthy(round[1].res)
  /\ Len(asserts[1]) = 2
  /\ asserts[1][1].kind = "fn" /\ asserts[1][1].does = "returnValue"
  /\ asserts[1][2].kind = "fn" /\ asserts[1][2].does = "pass"
  /\ invoked[1] = <<1, 2>>
  /\ result[1].err = Null

\* C13: the callback's second argument is the response the transport
\* completed the round trip with, when every assertion passes and when one
\* fails; it is no response only when the transport produced none.
C13_CallbackGetsTheResponse ==
  \A t \in TestIds :
    pc[t] = "done" =>
      /\ result[t].res = round[t].res
      /\ Truthy(result[t].res) <=> round[t].res \in Responses

\* A failed expect(200) on a 500 response: the callback gets the error and
\* the response.
C13_Witness ==
  /\ pc[1] = "done"
  /\ round[1].res = Response(500)
  /\ result[1].err.type = "AssertError"
  /\ result[1].res = Response(500)

\* The calls expect(a, fn) and expect(a, b, fn) with a that is no function.
CallbackArgs ==
  {args \in ShapeArgs : TypeOf(args[1]) # "function" /\ args[Len(args)] = Callback}

\* Such a call on a Test not dispatched yet hands the request to the transport.
CallbackDispatches ==
  \A args \in CallbackArgs :
    (Dispatches(1) = 0 /\ Expect(1, args, MaxAsserts)) =>
      (Dispatches(1)' = 1 /\ Len(asserts'[1]) > Len(asserts[1]))

\* C14 as stated: expect(a, fn) and expect(a, b, fn) dispatch the request for
\* every shape, and every assertion the call enqueued has been evaluated when
\* fn is invoked.
C14_AsStated ==
  /\ [][CallbackDispatches]_vars
  /\ [](pc[1] = "done" => (Len(asserts[1]) > 0 /\ invoked[1] = UpTo(Len(asserts[1]))))

\* C14, amended: such a call dispatches the request for every shape, and its
\* assertions are in the queue when the round trip completes: with a
\* response they are evaluated in order, up to the first that fails, before
\* fn is invoked; without a response none is evaluated.
C14_CallbackBeforeShape ==
  /\ [][CallbackDispatches]_vars
  /\ [](pc[1] = "done" =>
          /\ Len(asserts[1]) > 0
          /\ Precedes(trace[1], "dispatch", "assert")
          /\ Precedes(trace[1], "assert", "callback")
          /\ invoked[1] =
               IF ~Truthy(round[1].res) THEN <<>>
               ELSE LET k == FirstFailure(asserts[1], round[1].res)
                    IN UpTo(IF k = 0 THEN Len(asserts[1]) ELSE k))

\* expect(200, 'foo', fn) on a response 200 'foo': both assertions ran and fn
\* got no error.
C14_Witness ==
  /\ pc[1] = "done"
  /\ asserts[1] = <<[kind |-> "status", expected |-> 200],
                    [kind |-> "body", expected |-> Str("foo")]>>
  /\ invoked[1] = <<1, 2>>
  /\ result[1].err = Null
  /\ Called(1) = 1

\* The kind of assertion a call expect(a, b) is said to enqueue first.
KindByPrecedence(a, b) ==
  IF a.type = "function" THEN "fn"
  ELSE IF a.type = "number" THEN "status"
  ELSE IF a.type = "array" /\ a.elems # <<>> /\ \A e \in Range(a.elems) : e.type = "number"
    THEN "statusArray"
  ELSE IF b.type \in {"string", "number", "regexp"} THEN "header"
  ELSE "body"

\* What the first assertion enqueued by expect(a, b) is about, by its kind.
FirstIsAbout(first, a, b) ==
  CASE first.kind = "fn" -> first.does = a.does
    [] first.kind = "status" -> first.expected = a.n
    [] first.kind = "statusArray" -> first.expected = a.elems
    [] first.kind = "header" -> first.name = StringOf(a) /\ first.value = b
    [] first.kind = "body" -> first.expected = a

\* C15: expect enqueues an assertion of the kind its arguments select by the
\* precedence function, number, non-empty array of numbers, header (second
\* argument a string, number or pattern), body; the call returns normally
\* and leaves the Test in place.
C15_ShapePrecedence ==
  [][\A args \in ShapeArgs :
       Expect(1, args, MaxAsserts) =>
         LET a == Arg(args, 1)
             b == Arg(args, 2)
             n == Len(asserts[1])
         IN /\ Len(asserts'[1]) > n
            /\ asserts'[1][n + 1].kind = KindByPrecedence(a, b)
            /\ FirstIsAbout(asserts'[1][n + 1], a, b)
            /\ asserts'[1][n + 1].kind \in {"fn", "statusArray", "header", "body"}
                 => Len(asserts'[1]) = n + 1
            /\ threw' = ""
            /\ pc'[1] # "none"]_vars

\* expect([], fn) enqueued a body assertion on the empty array, which the
\* response with the body [] passed.
C15_Witness ==
  /\ pc[1] = "done"
  /\ asserts[1] = <<[kind |-> "body", expected |-> Arr(<<>>)]>>
  /\ round[1].res = FullResponse(200, Str("[]"), Arr(<<>>), <<>>)
  /\ invoked[1] = <<1>>
  /\ result[1].err = Null

\* The second arguments JavaScript takes for false.
FalsyArgs == {Str(""), Num(0), Null, Undefined}

\* The calls expect(status, x) and expect(status, x, fn), x no function.
StatusAndBodyArgs ==
  {args \in ShapeArgs :
     args[1].type = "number" /\ Len(args) >= 2 /\ args[2].type # "function"}

\* C16: expect(status, x) with a supplied second argument x that is no
\* function enqueues the status assertion and then a body assertion on x, for
\* a falsy x too; that body assertion is evaluated, so that expect(200, '')
\* on a 200 response with the text 'foo' fails with
\* "expected '' response body, got 'foo'".
C16_FalsyBodyIsAsserted ==
  /\ [][\A args \in StatusAndBodyArgs :
          Expect(1, args, MaxAsserts) =>
            asserts'[1] = asserts[1] \o <<[kind |-> "status", expected |-> args[1].n],
                                          [kind |-> "body", expected |-> args[2]]>>]_vars
  /\ [](( /\ pc[1] = "done"
          /\ Len(asserts[1]) = 2
          /\ asserts[1][2].kind = "body"
          /\ asserts[1][2].expected \in FalsyArgs
          /\ Truthy(round[1].res)
          /\ round[1].res.status = asserts[1][1].expected
          /\ round[1].res.text = Str("foo") )
        => /\ invoked[1] = <<1, 2>>
           /\ result[1].err.type = "AssertError"
           /\ asserts[1][2].expected = Str("")
                => result[1].err.message = "expected '' response body, got 'foo'")

\* expect(200, '', fn) on a 200 response with the text 'foo'.
C16_Witness ==
  /\ pc[1] = "done"
  /\ asserts[1] = <<[kind |-> "status", expected |-> 200],
                    [kind |-> "body", expected |-> Str("")]>>
  /\ Truthy(round[1].res)
  /\ round[1].res.text = Str("foo")
  /\ invoked[1] = <<1, 2>>
  /\ result[1].err = AssertError("expected '' response body, got 'foo'")

\* The message of a failed status assertion, for the statuses in use.
StatusMessage(expected, actual) ==
  CASE expected = 200 /\ actual = 500 -> "expected 200 \"OK\", got 500 \"Internal Server Error\""
    [] expected = 500 /\ actual = 200 -> "expected 500 \"Internal Server Error\", got 200 \"OK\""

\* C17: a status assertion fails if and only if the response's status is not
\* the expected number, and its failure names both statuses with their
\* reason phrases.
C17_StatusAssertion ==
  \A t \in TestIds :
    (pc[t] = "done" /\ Truthy(round[t].res)) =>
      \A i \in Range(invoked[t]) :
        asserts[t][i].kind = "status" =>
          IF round[t].res.status # asserts[t][i].expected
          THEN /\ result[t].err =
                    AssertError(StatusMessage(asserts[t][i].expected, round[t].res.status))
               /\ invoked[t] = UpTo(i)
          ELSE /\ i < Len(asserts[t]) => (i + 1) \in Range(invoked[t])
               /\ (i = Len(asserts[t]) /\ round[t].err = Null) => result[t].err = Null

\* expect(200) on a 500 response
C17_Witness ==
  /\ pc[1] = "done"
  /\ asserts[1] = <<[kind |-> "status", expected |-> 200]>>
  /\ round[1] = [err |-> Null, res |-> Response(500)]
  /\ result[1].err.message = "expected 200 \"OK\", got 500 \"Internal Server Error\""

\* A Test whose callback ran on a response, with the one assertion of kind k.
DoneWithOne(k) ==
  /\ pc[1] = "done"
  /\ Truthy(round[1].res)
  /\ Len(asserts[1]) = 1
  /\ asserts[1][1].kind = k

\* C18: a status-set assertion fails if and only if the response's status is
\* not a member of the list.
C18_StatusSetAssertion ==
  DoneWithOne("statusArray") =>
    /\ invoked[1] = <<1>>
    /\ result[1].err = Null
         <=> \E n \in Range(asserts[1][1].expected) : n = Num(round[1].res.status)
    /\ result[1].err # Null => result[1].err.type = "AssertError"

\* expect([200, 500], fn) passed on a 500 response
C18_Witness ==
  /\ DoneWithOne("statusArray")
  /\ asserts[1][1].expected = <<Num(200), Num(500)>>
  /\ round[1].res.status = 500
  /\ result[1].err = Null

\* The header the assertion is about is in the response, and its value.
HeaderPresent(name, res) == \E h \in Range(res.header) : h.key = ToLowerCase(name)
HeaderValue(name, res) == (CHOOSE h \in Range(res.header) : h.key = ToLowerCase(name)).value

\* The texts of an array-valued header, joined by commas.
JoinedValue(actual) == Join([i \in DOMAIN actual.elems |-> actual.elems[i].s], ",")

\* C19: a header assertion finds the header whatever the case of its name;
\* it fails with the 'header field' message if and only if the header is
\* absent; a present header passes if and only if its value is the expected
\* value, or it is an array whose joined text is the expected text, or the
\* expected value is a pattern that matches it.
C19_HeaderAssertion ==
  DoneWithOne("header") =>
    LET name == asserts[1][1].name
        expected == asserts[1][1].value
        res == round[1].res
        missing == AssertError("expected \"" \o name \o "\" header field")
    IN /\ invoked[1] = <<1>>
       /\ result[1].err = missing <=> ~HeaderPresent(name, res)
       /\ HeaderPresent(name, res) =>
            LET actual == HeaderValue(name, res)
            IN result[1].err = Null <=>
                 \/ actual = expected
                 \/ /\ actual.type = "array"
                    /\ expected.type = "string"
                    /\ JoinedValue(actual) = expected.s
                 \/ /\ expected.type = "regexp"
                    /\ StringOf(actual) \in expected.matches

\* expect('Content-Length', '3', fn) passed on a response whose headers hold
\* content-length: '3'.
C19_Witness ==
  /\ DoneWithOne("header")
  /\ asserts[1][1].name = "Content-Length"
  /\ asserts[1][1].value = Str("3")
  /\ HeaderPresent("Content-Length", round[1].res)
  /\ result[1].err = Null

\* C20 as stated: a header assertion on a number passes when the header's
\* text is the decimal text of the number and fails when it is not.
C20_AsStated ==
  ( /\ DoneWithOne("header")
    /\ asserts[1][1].value.type = "number"
    /\ HeaderPresent(asserts[1][1].name, round[1].res)
    /\ HeaderValue(asserts[1][1].name, round[1].res).type = "string" )
  => (result[1].err = Null
        <=> HeaderValue(asserts[1][1].name, round[1].res).s
              = DecimalText(asserts[1][1].value.n))

\* C21: a body assertion passes if and only if: a structured expectation
\* that is no pattern (an object, an array, null) is deeply and strictly
\* equal to the parsed body; a pattern matches the raw text; any other
\* expectation is identical to the raw text.
C21_BodyAssertion ==
  DoneWithOne("body") =>
    LET expected == asserts[1][1].expected
        res == round[1].res
    IN /\ invoked[1] = <<1>>
       /\ result[1].err = Null <=>
            CASE expected.type \in {"object", "array", "null"} -> expected = res.body
              [] expected.type = "regexp" -> res.text.s \in expected.matches
              [] OTHER -> expected = res.text
       /\ result[1].err # Null => result[1].err.type = "AssertError"

\* expect(/^f/, fn) passed on a response with the text 'foo'
C21_Witness ==
  /\ DoneWithOne("body")
  /\ asserts[1][1].expected.type = "regexp"
  /\ round[1].res.text = Str("foo")
  /\ result[1].err = Null

\* C29: a verb call returns a Test with an empty assertion queue, and a call
\* of expect on one Test changes the queue of no other Test of the factory.
C29_QueuesAreSeparate ==
  [][\A t \in TestIds :
       /\ (pc[t] = "none" /\ pc'[t] # "none") => asserts'[t] = <<>>
       /\ asserts'[t] # asserts[t] =>
            /\ pc[t] # "none"
            /\ \A u \in TestIds \ {t} : asserts'[u] = asserts[u]]_vars

\* Two Tests of one factory: the first took expect(200), the second, made
\* after it, has an empty queue.
C29_Witness ==
  /\ Len(asserts[1]) = 1
  /\ pc[2] = "idle"
  /\ asserts[2] = <<>>

\* C30: a verb call on a server that is not bound binds it: when the call
\* returns the server listens on a port, the Test's URL has that port, and
\* the Test keeps the server in _server, which it closes at completion.
C30_BindsUnboundServer ==
  /\ [][\A t \in TestIds :
          (pc[t] = "none" /\ pc'[t] # "none" /\ app = "server" /\ ~handle) =>
            /\ handle'
            /\ port' # port
            /\ url'[t] = port'
            /\ server'[t]]_vars
  /\ [][\A t \in TestIds :
          (server[t] /\ handle /\ pc[t] = "dispatched" /\ pc'[t] # "dispatched") =>
            (~handle' /\ Closes(t)' = 1)]_vars

\* The verb call has just returned on a server that was not bound.
C30_Witness ==
  /\ app = "server"
  /\ pc[1] = "idle"
  /\ trace[1] = <<"listen">>
  /\ server[1]
  /\ handle
  /\ url[1] = port

\* The calls of expectHeader and unexpectHeader on a Test: with a callback
\* on a Test not dispatched yet they hand the request to the transport,
\* without one they leave it where it is; both enqueue one assertion of
\* their kind.
PresenceCallsDispatch(kind) ==
  \A name \in ShapeNames, fn \in {Undefined, Callback} :
    (Dispatches(1) = 0 /\ ExpectHeaderKind(1, kind, name, fn, MaxAsserts)) =>
      /\ Dispatches(1)' = (IF fn = Callback THEN 1 ELSE 0)
      /\ asserts'[1] = Append(asserts[1], [kind |-> kind, name |-> name])

\* C22: expectHeader(name) enqueues an assertion that passes if and only if
\* the response carries the header, whatever its value; with a callback it
\* also dispatches the request.
C22_ExpectHeader ==
  /\ [](DoneWithOne("headerPresent") =>
          /\ invoked[1] = <<1>>
          /\ result[1].err = Null <=> HeaderPresent(asserts[1][1].name, round[1].res))
  /\ [][PresenceCallsDispatch("headerPresent")]_vars

\* expectHeader('Content-Length', fn) passed on a response with the header.
C22_Witness ==
  /\ DoneWithOne("headerPresent")
  /\ Dispatches(1) = 1
  /\ asserts[1][1].name = "Content-Length"
  /\ HeaderPresent("Content-Length", round[1].res)
  /\ result[1].err = Null

\* C23: unexpectHeader(name) enqueues an assertion that passes if and only
\* if the response does not carry the header; with a callback it also
\* dispatches the request.
C23_UnexpectHeader ==
  /\ [](DoneWithOne("headerAbsent") =>
          /\ invoked[1] = <<1>>
          /\ result[1].err = Null <=> ~HeaderPresent(asserts[1][1].name, round[1].res))
  /\ [][PresenceCallsDispatch("headerAbsent")]_vars

\* unexpectHeader('Content-Length', fn) failed on a response with the header.
C23_Witness ==
  /\ DoneWithOne("headerAbsent")
  /\ Dispatches(1) = 1
  /\ asserts[1][1].name = "Content-Length"
  /\ HeaderPresent("Content-Length", round[1].res)
  /\ result[1].err # Null

\* The step in which a verb call makes Test t, and the step in which the
\* request of Test t is first sent.
Creates(t) == pc[t] = "none" /\ pc'[t] # "none"
Sends(t) == req[t].sent = <<>> /\ req'[t].sent # <<>>

\* A request is first sent with the cookies attached to it, and these are
\* the ones it got when it was made until a redirect hop attaches others.
SentAsAttached(t) == Sends(t) => req'[t].sent[1] = req[t].cookies
AttachedUntilHop(t) ==
  (pc[t] # "none" /\ req'[t].cookies # req[t].cookies) =>
    Len(req'[t].redirected) > Len(req[t].redirected)

\* C24: a request an agent makes after another of its requests completed
\* with a response carries every cookie that response set, and is sent
\* with them.
C24_CookiesPersist ==
  [][\A t, u \in TestIds :
       /\ (factory.agent /\ pc[t] = "done" /\ Truthy(round[t].res) /\ Creates(u)) =>
            SetCookies(round[t].res) \subseteq req'[u].cookies
       /\ SentAsAttached(u)
       /\ AttachedUntilHop(u)]_vars

\* The first request got a cookie; the second, made after that, was sent
\* with it.
C24_Witness ==
  /\ factory.agent
  /\ pc[1] = "done"
  /\ Truthy(round[1].res)
  /\ SetCookies(round[1].res) = {"cookie=hey"}
  /\ req[1].sent = <<{}>>
  /\ req[2].redirected = <<>>
  /\ req[2].sent = <<{"cookie=hey"}>>

\* C25: on a redirect hop of an agent's request the cookies of the
\* redirecting response are in the jar before the jar is attached again, so
\* the next hop is sent with them.
C25_SavedThenAttached ==
  [][\A t \in TestIds :
       (factory.agent /\ Len(req'[t].redirected) > Len(req[t].redirected)) =>
         LET res == req'[t].redirected[Len(req'[t].redirected)]
         IN /\ SetCookies(res) \subseteq factory'.jar
            /\ req'[t].cookies = factory'.jar
            /\ SetCookies(res) \subseteq req'[t].sent[Len(req'[t].sent)]]_vars

\* A request sent without cookies was redirected by a response that set one
\* and went on with it.
C25_Witness ==
  /\ factory.agent
  /\ Len(req[1].redirected) = 1
  /\ SetCookies(req[1].redirected[1]) = {"second=1"}
  /\ req[1].sent = <<{}, {"second=1"}>>

\* C26: a request of an agent is given the jar as it is when the verb call
\* makes it, is sent with what it was given, and is given the jar again on
\* a redirect hop only.
C26_JarAtCreation ==
  [][\A t \in TestIds :
       /\ (factory.agent /\ Creates(t)) => req'[t].cookies = factory.jar
       /\ SentAsAttached(t)
       /\ AttachedUntilHop(t)]_vars

\* The second request was made before the first response stored a cookie
\* and dispatched after it: it was sent without the cookie.
C26_Witness ==
  /\ factory.agent
  /\ factory.jar = {"cookie=hey"}
  /\ req[2].redirected = <<>>
  /\ req[2].sent = <<{}>>
  /\ pc[1] = "done"
  /\ pc[2] = "dispatched"

\* C26 as stated: every request of an agent is sent with the jar as it is
\* at the moment it is sent.
C26_AsStated ==
  [][\A t \in TestIds : (factory.agent /\ Sends(t)) => req'[t].sent[1] = factory.jar]_vars

\* C27: host(h) keeps h and returns the agent; a request made afterwards has
\* the host header h when h is not empty and no header default of the agent
\* replaces it, the default when there is one, and none after host('').
C27_HostHeader ==
  [][/\ \A t \in TestIds :
          (factory.agent /\ Creates(t)) =>
            req'[t].host =
              (IF factory.defaults # <<>> THEN factory.defaults[Len(factory.defaults)]
               ELSE IF factory.host = Str("") THEN Undefined
               ELSE factory.host)
     /\ \A h \in Hosts :
          Host(h) => (factory'.host = h /\ factory'.returned = "agent")]_vars

\* A request made after host('something.test') has that host header.
C27_Witness ==
  /\ factory.agent
  /\ factory.host = Str("something.test")
  /\ factory.defaults = <<>>
  /\ pc[1] = "idle"
  /\ req[1].host = Str("something.test")

\* C27 as stated: after host(h) every request made has the host header h.
C27_AsStated ==
  [][\A t \in TestIds :
       (factory.agent /\ factory.host # Undefined /\ Creates(t)) =>
         req'[t].host = factory.host]_vars

\* C28 as stated: every Test of a factory or agent built with options.http2
\* is in HTTP/2 mode, whatever the application reference, and every other
\* Test is in HTTP/1.1 mode.
C28_AsStated ==
  \A t \in TestIds : pc[t] # "none" => req[t].http2 = factory.options.http2

\* C31: in a factory built from a handler, a verb call made after a Test
\* that owned the server completed and closed it binds the server again and
\* owns it; that Test closes the server before its own callback, and is
\* called back with a null error and the response when the handler answers
\* and no assertion fails.
C31_NestedRequests ==
  /\ [][\A t, u \in TestIds :
          (server[t] /\ pc[t] = "done" /\ Closes(t) = 1 /\ ~handle /\ Creates(u)) =>
            (handle' /\ server'[u] /\ url'[u] = port')]_vars
  /\ [](\A u \in TestIds :
          pc[u] = "done" =>
            /\ server[u]
            /\ Closes(u) = 1
            /\ Count(trace[u], "closed") = 1
            /\ Precedes(trace[u], "close", "closed")
            /\ Precedes(trace[u], "closed", "callback")
            /\ (round[u] = [err |-> Null, res |-> Response(200)]
                /\ FirstFailure(asserts[u], round[u].res) = 0) =>
                 result[u] = [err |-> Null, res |-> Response(200)])

\* Both requests bound and closed the server; the nested one was answered.
C31_Witness ==
  /\ pc[1] = "done" /\ pc[2] = "done"
  /\ server[1] /\ server[2]
  /\ Closes(1) = 1 /\ Closes(2) = 1
  /\ url[2] # url[1]
  /\ result[2] = [err |-> Null, res |-> Response(200)]

C35_AsStated ==
  [][\A t \in TestIds :
       (handle /\ ~handle' /\ Closes(t)' > Closes(t)) =>
         \A u \in TestIds \ {t} :
           ~(pc[u] \in {"idle", "dispatched"} /\ url[u] = port)]_vars

\* C37: with a response, a transport error and a failing assertion, the
\* callback's error is the outcome of the first failing assertion, which is
\* the last one invoked, and not the transport error.
C37_AssertionFailureFirst ==
  \A t \in TestIds :
    LET k == FirstFailure(asserts[t], round[t].res)
    IN (pc[t] = "done" /\ Truthy(round[t].res) /\ round[t].err # Null /\ k # 0) =>
         /\ result[t].err = Outcome(t, k).value
         /\ result[t].err # round[t].err
         /\ invoked[t] = UpTo(k)

\* A 500 response with an error of another status and a failed expect(200).
C37_Witness ==
  /\ pc[1] = "done"
  /\ round[1].res = Response(500)
  /\ round[1].err = ResponseError(200, NoCode, "")
  /\ asserts[1][1] = [kind |-> "status", expected |-> 200]
  /\ result[1].err.type = "AssertError"

\* The index of the first built-in assertion of q, 0 if it has none.
FirstBuiltIn(q) ==
  LET builtIn == {i \in 1..Len(q) : q[i].kind # "fn"}
  IN IF builtIn = {} THEN 0 ELSE CHOOSE i \in builtIn : \A j \in builtIn : i <= j

\* C38: when the round trip ends with no response and no error, the
\* callback is invoked once, without a response; with an empty queue its
\* error is null; a built-in assertion reached by the evaluation raises on
\* the missing response, and what it raises is the callback's error.
C38_NothingToRead ==
  \A t \in TestIds :
    (pc[t] = "done" /\ round[t] = [err |-> Null, res |-> Undefined]) =>
      LET q == asserts[t]
          b == FirstBuiltIn(q)
      IN /\ Called(t) = 1
         /\ ~Truthy(result[t].res)
         /\ q = <<>> => result[t].err = Null
         /\ (b # 0 /\ \A i \in 1..(b - 1) : ~YieldsError(q[i], Undefined)) =>
              (result[t].err = TypeError /\ invoked[t] = UpTo(b))

\* expect(200) on a round trip that ended with nothing.
C38_Witness ==
  /\ pc[1] = "done"
  /\ round[1] = [err |-> Null, res |-> Undefined]
  /\ asserts[1] = <<[kind |-> "status", expected |-> 200]>>
  /\ result[1] = [err |-> TypeError, res |-> Undefined]

\* The response as the calls of the assertions before the i-th left it.
RECURSIVE MutatedBefore(_, _, _)
MutatedBefore(q, res, i) ==
  IF i <= 1 THEN res
  ELSE LET before == MutatedBefore(q, res, i - 1)
           a == q[i - 1]
       IN IF a.kind # "fn" THEN before
          ELSE CASE a.does = "setBody" -> [before EXCEPT !.body = Obj("{ first: 1 }")]
                 [] a.does = "setText" -> [before EXCEPT !.text = Str("gone")]
                 [] OTHER -> before

\* The first assertion of q that fails on the response as the assertions
\* before it left it, 0 if none does.
FirstFailureAsLeft(q, res) ==
  LET failing == {i \in 1..Len(q) : YieldsError(q[i], MutatedBefore(q, res, i))}
  IN IF failing = {} THEN 0 ELSE CHOOSE i \in failing : \A j \in failing : i <= j

\* C33: every assertion is evaluated on the response as the closures before
\* it in the queue left it, so a write of a closure is seen by every later
\* assertion and by none before it, and the callback is given the response
\* with the writes of every closure that was called.
C33_MutationsAreSeen ==
  (pc[1] = "done" /\ Truthy(round[1].res)) =>
    LET q == asserts[1]
        k == FirstFailureAsLeft(q, round[1].res)
        n == IF k = 0 THEN Len(q) ELSE k
    IN /\ invoked[1] = UpTo(n)
       /\ result[1].res = MutatedBefore(q, round[1].res, n + 1)
       /\ result[1].err =
            IF k = 0 THEN Null
            ELSE CallAssertFn(q[k], MutatedBefore(q, round[1].res, k)).value

\* A closure replaced the text 'foo', expect('gone') after it passed, and the
\* callback got the replaced text.
C33_Witness ==
  /\ pc[1] = "done"
  /\ Truthy(round[1].res)
  /\ round[1].res.text = Str("foo")
  /\ asserts[1] = <<[kind |-> "fn", id |-> 1, does |-> "setText"],
                    [kind |-> "body", expected |-> Str("gone")]>>
  /\ invoked[1] = <<1, 2>>
  /\ result[1].err = Null
  /\ result[1].res.text = Str("gone")

C36_LateAssertionsAreEvaluated ==
  /\ [][\A args \in LateArgs :
          (pc[1] = "dispatched" /\ Expect(1, args, MaxAsserts)) =>
            /\ asserts'[1] = asserts[1] \o ExpectPushes(args[1], Undefined, 1, Len(asserts[1]))
            /\ pc'[1] = "dispatched"
            /\ invoked'[1] = <<>>]_vars
  /\ [][(pc[1] = "idle" /\ pc'[1] = "dispatched") => asserts[1] = <<>>]_vars
  /\ []((pc[1] = "done" /\ Truthy(round[1].res)) =>
          LET k == FirstFailure(asserts[1], round[1].res)
          IN invoked[1] = UpTo(IF k = 0 THEN Len(asserts[1]) ELSE k))

\* Two assertions enqueued after the dispatch were both evaluated, and the
\* second failed.
C36_Witness ==
  /\ pc[1] = "done"
  /\ Truthy(round[1].res)
  /\ round[1].res.status = 200
  /\ asserts[1] = <<[kind |-> "status", expected |-> 200],
                    [kind |-> "status", expected |-> 500]>>
  /\ invoked[1] = <<1, 2>>
  /\ result[1].err.type = "AssertError"

====
